---- MODULE Spec2Model ----
(***************************************************************************)
(* A model of the portfolio tools under src/lib/tools:                     *)
(*   backtest.py  - class Backtest (constructor, run, plot/save_results)   *)
(*   simulate.py  - format_crypto_symbol and simulate                      *)
(*   heatmap.py   - plot_sp500_returns_heatmap and get_sp500_data          *)
(*                                                                         *)
(* Numbers.  The Python code computes in binary floating point.  The model *)
(* computes in exact rational arithmetic: a number is a pair <<n, d>> in   *)
(* lowest terms with d > 0.  Every result stated below is therefore a      *)
(* result about the arithmetic the code performs, up to float rounding.    *)
(***************************************************************************)
EXTENDS Integers, Sequences, FiniteSets, TLC

VARIABLES
    \* ---- backtest.py ----
    market,         \* the provider's close prices: ticker -> sequence over trading days
    pc,             \* "new" | "ready" (constructed) | "failed" (constructor raised)
    long_stocks, short_stocks, long_weights, short_weights,
    start_date, end_date, benchmark,
    results,        \* self.results
    last,           \* what the last call did: [op, err, fetches, strategy]
    \* ---- simulate.py: format_crypto_symbol ----
    symbol,         \* the argument, a sequence of characters
    formatted,      \* [done, value]: the value returned
    \* ---- simulate.py: simulate ----
    growth_rate,    \* percent per year, an integer
    actual,         \* the provider's series: sequence of [date, price]
    sim,            \* [state, days_elapsed, simulated_prices]
    \* ---- heatmap.py ----
    hpc,            \* "idle" | "try" | "except" | "returned" | "exited"
    csv,            \* market_caps_and_returns.csv: "missing" | "empty" | "ok"
    attempts,       \* entries into plot_sp500_returns_heatmap (generation attempts)
    refreshes       \* calls of get_sp500_data

btVars == <<market, pc, long_stocks, short_stocks, long_weights, short_weights,
            start_date, end_date, benchmark, results, last>>
fmtVars == <<symbol, formatted>>
simVars == <<growth_rate, actual, sim>>
hmVars == <<hpc, csv, attempts, refreshes>>
vars == <<btVars, fmtVars, simVars, hmVars>>

(***************************************************************************)
(* Exact rational arithmetic                                               *)
(***************************************************************************)
Abs(x) == IF x < 0 THEN -x ELSE x

RECURSIVE GCD(_, _)
GCD(a, b) == IF b = 0 THEN a ELSE GCD(b, a % b)

\* n/d in lowest terms with a positive denominator (d # 0)
Rat(n, d) ==
    LET g == GCD(Abs(n), Abs(d))
        s == IF d < 0 THEN -1 ELSE 1
    IN <<(s * n) \div g, (s * d) \div g>>

Zero == <<0, 1>>
One == <<1, 1>>
RInt(k) == <<k, 1>>
RAdd(x, y) == Rat(x[1] * y[2] + y[1] * x[2], x[2] * y[2])
RNeg(x) == <<-x[1], x[2]>>
RSub(x, y) == RAdd(x, RNeg(y))
RMul(x, y) == Rat(x[1] * y[1], x[2] * y[2])
RDiv(x, y) == Rat(x[1] * y[2], x[2] * y[1])

\* the sequence <<F(1), ..., F(n)>>
RECURSIVE Tabulate(_, _)
Tabulate(F(_), n) == IF n = 0 THEN <<>> ELSE Append(Tabulate(F, n - 1), F(n))

RECURSIVE SumInts(_)
SumInts(s) == IF s = <<>> THEN 0 ELSE Head(s) + SumInts(Tail(s))

RECURSIVE SumRats(_)
SumRats(s) == IF s = <<>> THEN Zero ELSE RAdd(Head(s), SumRats(Tail(s)))

(***************************************************************************)
(* backtest.py                                                             *)
(***************************************************************************)
NumDates == 3

Tickers == {"A", "B"}
Prices == {1, 2}
Days == 1..NumDates
\* a leg's ticker list
StockLists == {<<>>, <<"A">>, <<"B">>, <<"A", "B">>}
\* a weight argument: None, or a list of numbers
NoneW == [isNone |-> TRUE, v |-> <<>>]
SomeW(s) == [isNone |-> FALSE, v |-> s]
WeightVectors ==
    {<<>>, <<0>>, <<1>>, <<2>>, <<1, 1>>, <<1, 2>>, <<2, -1>>, <<1, -1>>, <<1, 1, 1>>}
WeightArgs == {NoneW} \cup {SomeW(s) : s \in WeightVectors}
StartDates == {1, 2}
EndDates == {1, NumDates + 1}

\* the provider's data: every close series over Prices for A; B's closes are A's in
\* reverse order (equal to A's when A's series is a palindrome)
Markets ==
    {m \in [Tickers -> [Days -> Prices]] :
        \A d \in Days : m["B"][d] = m["A"][NumDates + 1 - d]}

NoResults == [isNone |-> TRUE, table |-> <<>>]
NoStrategy == <<>>

\* __init__, lines 32-37 (long) and 39-44 (short): the weights stored, or the error raised.
\* In exact arithmetic normalised weights sum to 1 whenever the sum is not 0; in floats
\* the assert of lines 37 and 44 can also fail by rounding (six equal weights).
NormalizeWeights(stocks, w) ==
    IF w.isNone
    THEN [err |-> "none", weights |-> Tabulate(LAMBDA i : Rat(1, Len(stocks)), Len(stocks))]
    ELSE IF Len(w.v) > 0 /\ SumInts(w.v) = 0
    THEN [err |-> "ZeroDivisionError", weights |-> <<>>]
    ELSE LET n == Tabulate(LAMBDA i : Rat(w.v[i], SumInts(w.v)), Len(w.v))
         IN IF Len(n) # Len(stocks)
            THEN [err |-> "AssertionError: same length", weights |-> <<>>]
            ELSE IF SumRats(n) # One
            THEN [err |-> "AssertionError: sum to 1", weights |-> <<>>]
            ELSE [err |-> "none", weights |-> n]

\* fetch_data, line 51: yfinance's download returns the closes of the trading days d
\* with start <= d < end, one column per requested ticker.  The ticker lists of the
\* model are in alphabetical order, so the columns line up with the weights.
fetch_data(tickers) ==
    Tabulate(LAMBDA i :
                Tabulate(LAMBDA k : market[tickers[i]][start_date + k - 1],
                         Cardinality({d \in Days : start_date <= d /\ d < end_date})),
             Len(tickers))

\* PctChange without line 69's reset: the first return measured against a price of 1
PctChangeFirstKept(p) ==
    Tabulate(LAMBDA t : IF t = 1 THEN RSub(RInt(p[1]), One)
                        ELSE RSub(RDiv(RInt(p[t]), RInt(p[t - 1])), One), Len(p))

\* lines 68-69, 74-75, 79-80: prices / prices.shift(1) - 1, then .iloc[0] = 0
PctChange(p) ==
    Tabulate(LAMBDA t : IF t = 1 THEN Zero
                        ELSE RSub(RDiv(RInt(p[t]), RInt(p[t - 1])), One), Len(p))

\* lines 70, 76: (returns * weights).sum(axis=1)
PortfolioReturns(cols, weights) ==
    LET returns == Tabulate(LAMBDA i : PctChange(cols[i]), Len(cols))
    IN Tabulate(LAMBDA t :
                   SumRats(Tabulate(LAMBDA i : RMul(returns[i][t], weights[i]), Len(cols))),
                Len(cols[1]))

\* CombineReturns with line 85's minus sign dropped
CombineReturnsShortNotNegated(ls, ss, lp, sp) ==
    IF ls # <<>> /\ ss # <<>>
    THEN [err |-> "none",
          strategy |-> Tabulate(LAMBDA t : RSub(lp.v[t], sp.v[t]), Len(lp.v))]
    ELSE IF Len(ls) = 0
    THEN IF sp.bound
         THEN [err |-> "none", strategy |-> sp.v]
         ELSE [err |-> "UnboundLocalError", strategy |-> <<>>]
    ELSE [err |-> "none", strategy |-> lp.v]

\* lines 82-89: the strategy return series from the leg-population state.  A leg's
\* portfolio returns are bound only when that leg's `if self.<leg>_stocks:` ran.
CombineReturns(ls, ss, lp, sp) ==
    IF ls # <<>> /\ ss # <<>>
    THEN [err |-> "none",
          strategy |-> Tabulate(LAMBDA t : RSub(lp.v[t], sp.v[t]), Len(lp.v))]
    ELSE IF Len(ls) = 0
    THEN IF sp.bound
         THEN [err |-> "none", strategy |-> Tabulate(LAMBDA t : RNeg(sp.v[t]), Len(sp.v))]
         ELSE [err |-> "UnboundLocalError", strategy |-> NoStrategy]
    ELSE IF Len(ss) = 0
    THEN [err |-> "none", strategy |-> lp.v]
    ELSE [err |-> "ValueError: No stocks to trade", strategy |-> NoStrategy]

\* lines 92-93: (1 + r).cumprod() - 1, the product accumulated date by date
RECURSIVE CumProd(_, _)
CumProd(r, t) ==
    IF t = 1 THEN RAdd(One, r[1]) ELSE RMul(CumProd(r, t - 1), RAdd(One, r[t]))

CumReturns(r) == Tabulate(LAMBDA t : RSub(CumProd(r, t), One), Len(r))

\* lines 95-98: pd.concat of the two named series, one row per date
ResultsTable(strategy, bench) ==
    LET cum_strategy_returns == CumReturns(strategy)
        cum_benchmark_returns == CumReturns(bench)
    IN [isNone |-> FALSE,
        table |-> Tabulate(LAMBDA t : [strategy |-> cum_strategy_returns[t],
                                       benchmark |-> cum_benchmark_returns[t]],
                           Len(strategy))]

\* _check_results that never raises
CheckResultsNever(res) == FALSE

\* lines 53-55: _check_results raises when self.results is None
CheckResults(res) == res.isNone

\* run calls fetch_data at most three times: lines 67, 73 and 78
MaxFetches == 3

Unbound == [bound |-> FALSE, v |-> <<>>]
Bound(s) == [bound |-> TRUE, v |-> s]

\* run, lines 65-99.  failAt names the fetch_data call (1st, 2nd, 3rd) whose download
\* raises, 0 for none; saveOk says whether to_csv succeeds.  The value is the run's
\* outcome: the error raised, the number of fetch_data calls made, the strategy
\* return series computed and the value of self.results afterwards.
RunOutcome(failAt, saveOk) ==
    LET hasL == long_stocks # <<>>
        hasS == short_stocks # <<>>
        iL == 1
        iS == IF hasL THEN 2 ELSE 1
        iB == iS + (IF hasS THEN 1 ELSE 0)
        empty == {d \in Days : start_date <= d /\ d < end_date} = {}
        Out(e, n, s, r) == [err |-> e, fetches |-> n, strategy |-> s, results |-> r]
        lp == IF hasL THEN Bound(PortfolioReturns(fetch_data(long_stocks), long_weights))
              ELSE Unbound
        sp == IF hasS THEN Bound(PortfolioReturns(fetch_data(short_stocks), short_weights))
              ELSE Unbound
        br == PctChange(fetch_data(<<benchmark>>)[1])
        c == CombineReturns(long_stocks, short_stocks, lp, sp)
        new == ResultsTable(c.strategy, br)
    IN  IF hasL /\ failAt = iL THEN Out("DataUnavailable", iL, NoStrategy, results)
        ELSE IF hasL /\ empty THEN Out("IndexError", iL, NoStrategy, results)
        ELSE IF hasS /\ failAt = iS THEN Out("DataUnavailable", iS, NoStrategy, results)
        ELSE IF hasS /\ empty THEN Out("IndexError", iS, NoStrategy, results)
        ELSE IF failAt = iB THEN Out("DataUnavailable", iB, NoStrategy, results)
        ELSE IF empty THEN Out("IndexError", iB, NoStrategy, results)
        ELSE IF c.err # "none" THEN Out(c.err, iB, NoStrategy, results)
        ELSE IF CheckResults(new)
        THEN Out("ValueError: Results are not available", iB, c.strategy, new)
        ELSE IF ~saveOk THEN Out("OSError", iB, c.strategy, new)
        ELSE Out("none", iB, c.strategy, new)

\* the record of a call: the operation, the error it raised ("none": it returned), the
\* fetch_data calls it made, the strategy return series it computed, and, for a
\* constructor call that raised, the weight arguments it was given
Called(op, e, n, s) == [op |-> op, err |-> e, fetches |-> n, strategy |-> s, args |-> <<>>]

otherUnchanged == UNCHANGED <<fmtVars, simVars, hmVars>>
fieldsUnchanged ==
    UNCHANGED <<market, pc, long_stocks, short_stocks, long_weights, short_weights,
                start_date, end_date, benchmark>>

\* Backtest(...), lines 20-48
Construct(ls, ss, bm, sd, ed, lw, sw) ==
    /\ pc = "new"
    /\ LET l == NormalizeWeights(ls, lw)
           s == NormalizeWeights(ss, sw)
           e == IF l.err # "none" THEN l.err ELSE s.err
       IN IF e # "none"
          THEN /\ pc' = "failed"
               /\ long_stocks' = ls
               /\ short_stocks' = ss
               /\ last' = [Called("init", e, 0, NoStrategy) EXCEPT !.args = <<lw, sw>>]
               /\ UNCHANGED <<long_weights, short_weights, start_date, end_date,
                              benchmark>>
          ELSE /\ pc' = "ready"
               /\ long_stocks' = ls
               /\ short_stocks' = ss
               /\ long_weights' = l.weights
               /\ short_weights' = s.weights
               /\ start_date' = sd
               /\ end_date' = ed
               /\ benchmark' = bm
               /\ last' = Called("init", "none", 0, NoStrategy)
    /\ UNCHANGED <<market, results>>
    /\ otherUnchanged

\* backtest.run(), lines 65-99
Run(failAt, saveOk) ==
    /\ pc = "ready"
    /\ LET o == RunOutcome(failAt, saveOk)
       IN /\ results' = o.results
          /\ last' = Called("run", o.err, o.fetches, o.strategy)
    /\ fieldsUnchanged
    /\ otherUnchanged

\* backtest.plot_results(), lines 57-59
PlotResults ==
    /\ pc = "ready"
    /\ last' = Called("plot", IF CheckResults(results)
                              THEN "ValueError: Results are not available"
                              ELSE "none", 0, NoStrategy)
    /\ UNCHANGED results
    /\ fieldsUnchanged
    /\ otherUnchanged

\* backtest.save_results(), lines 61-63
SaveResults(saveOk) ==
    /\ pc = "ready"
    /\ last' = Called("save", IF CheckResults(results)
                              THEN "ValueError: Results are not available"
                              ELSE IF saveOk THEN "none" ELSE "OSError", 0, NoStrategy)
    /\ UNCHANGED results
    /\ fieldsUnchanged
    /\ otherUnchanged

\* The other tools' variables while the backtest runs
fmtIdle == symbol = <<>> /\ formatted = [done |-> FALSE, value |-> <<>>]
simIdle == growth_rate = 0 /\ actual = <<>>
           /\ sim = [state |-> "idle", days_elapsed |-> <<>>, simulated_prices |-> <<>>]
hmIdle == hpc = "idle" /\ csv = "missing" /\ attempts = 0 /\ refreshes = 0
btIdle ==
    /\ market = [t \in Tickers |-> [d \in Days |-> 1]]
    /\ pc = "new"
    /\ long_stocks = <<>> /\ short_stocks = <<>>
    /\ long_weights = <<>> /\ short_weights = <<>>
    /\ start_date = 1 /\ end_date = 1 /\ benchmark = "A"
    /\ results = NoResults
    /\ last = Called("none", "none", 0, NoStrategy)

Init ==
    /\ market \in Markets
    /\ pc = "new"
    /\ long_stocks = <<>> /\ short_stocks = <<>>
    /\ long_weights = <<>> /\ short_weights = <<>>
    /\ start_date = 1 /\ end_date = 1 /\ benchmark = "A"
    /\ results = NoResults
    /\ last = Called("none", "none", 0, NoStrategy)
    /\ fmtIdle /\ simIdle /\ hmIdle

Next ==
    \/ /\ pc = "new"
       /\ \E ls \in StockLists, ss \in StockLists, bm \in Tickers,
             sd \in StartDates, ed \in EndDates, lw \in WeightArgs, sw \in WeightArgs :
             Construct(ls, ss, bm, sd, ed, lw, sw)
    \/ \E failAt \in 0..MaxFetches, saveOk \in BOOLEAN : Run(failAt, saveOk)
    \/ PlotResults
    \/ \E saveOk \in BOOLEAN : SaveResults(saveOk)

Spec == Init /\ [][Next]_vars

(***************************************************************************)
(* Claims about backtest.py                                                *)
(***************************************************************************)
RunComputed == pc = "ready" /\ last.op = "run" /\ last.strategy # NoStrategy
LongLeg == PortfolioReturns(fetch_data(long_stocks), long_weights)
ShortLeg == PortfolioReturns(fetch_data(short_stocks), short_weights)

\* C1: the strategy return series a run computes is long - short at every date when
\* both legs are populated, the long portfolio return when only the long leg is, and
\* the negation of the short portfolio return when only the short leg is; a short-only
\* run is the exact negation of the long-only run on the same tickers, weights and prices.
C1_StrategySelection ==
    RunComputed =>
        /\ (long_stocks # <<>> /\ short_stocks # <<>>) =>
              /\ Len(last.strategy) = Len(LongLeg)
              /\ \A t \in 1..Len(LongLeg) :
                    last.strategy[t] = RSub(LongLeg[t], ShortLeg[t])
        /\ (long_stocks # <<>> /\ short_stocks = <<>>) => last.strategy = LongLeg
        /\ (long_stocks = <<>> /\ short_stocks # <<>>) =>
              /\ Len(last.strategy) = Len(ShortLeg)
              /\ \A t \in 1..Len(ShortLeg) :
                    /\ last.strategy[t] = RSub(Zero, ShortLeg[t])
                    /\ RAdd(last.strategy[t],
                            CombineReturns(short_stocks, <<>>, Bound(ShortLeg),
                                           Unbound).strategy[t]) = Zero

C1_Witness ==
    /\ RunComputed /\ last.err = "none"
    /\ long_stocks = <<>> /\ short_stocks = <<"A", "B">>
    /\ \E t \in 1..Len(last.strategy) : last.strategy[t][1] < 0

\* C2: a run of a backtest with both legs empty (a date range with trading days, the
\* provider answering) fails with the error "No stocks to trade" and no other.
C2_NoStocksToTrade ==
    (/\ pc = "ready" /\ last.op = "run"
     /\ long_stocks = <<>> /\ short_stocks = <<>>
     /\ start_date < end_date /\ last.err # "DataUnavailable")
        => last.err = "ValueError: No stocks to trade"

\* the inputs violate a precondition of the return engine
LengthMismatch(stocks, w) == ~w.isNone /\ Len(w.v) # Len(stocks)
PreconditionViolated ==
    \/ pc = "failed"
    \/ pc = "ready" /\ start_date >= end_date
    \/ pc = "ready" /\ long_stocks = <<>> /\ short_stocks = <<>>

\* C3: when the inputs violate a precondition (weight length, zero-sum weights,
\* start_date >= end_date, both legs empty) no call has made any fetch_data call.
C3_FailFast == PreconditionViolated => last.fetches = 0

\* C4: a supplied weight vector of the wrong length or summing to zero is rejected
\* with a configuration (assertion) error: no division by zero escapes, and a vector
\* of the wrong length always fails the length check, zero-sum or not.
C4_WeightsRejected ==
    pc = "failed" =>
        /\ last.err \in {"AssertionError: same length", "AssertionError: sum to 1"}
        /\ LengthMismatch(long_stocks, last.args[1])
              => last.err = "AssertionError: same length"
        /\ (/\ NormalizeWeights(long_stocks, last.args[1]).err = "none"
            /\ LengthMismatch(short_stocks, last.args[2]))
              => last.err = "AssertionError: same length"

\* C5: a backtest with start_date >= end_date is rejected by the constructor, and no
\* such backtest ever holds results.
C5_DatesRejected ==
    /\ pc = "ready" => start_date < end_date
    /\ ~results.isNone => start_date < end_date

\* the product of (1 + r[i]) for i = 1..t
RECURSIVE Compound(_, _)
Compound(r, t) == IF t = 0 THEN One ELSE RMul(RAdd(One, r[t]), Compound(r, t - 1))

\* C6: the first entry of every price series' return series is exactly 0, whatever the
\* first price; after a run that produced results both columns are exactly 0 at the
\* first date, and at date t each column is the product of (1 + r[i]), i <= t, minus 1.
C6_FirstZeroAndCompounding ==
    /\ \A tk \in Tickers : PctChange(market[tk])[1] = Zero
    /\ (RunComputed /\ ~results.isNone) =>
          LET br == PctChange(fetch_data(<<benchmark>>)[1])
          IN /\ Len(results.table) = Len(last.strategy)
             /\ results.table[1] = [strategy |-> Zero, benchmark |-> Zero]
             /\ \A t \in 1..Len(results.table) :
                   /\ results.table[t].strategy = RSub(Compound(last.strategy, t), One)
                   /\ results.table[t].benchmark = RSub(Compound(br, t), One)

C6_Witness ==
    /\ RunComputed /\ last.err = "none" /\ ~results.isNone
    /\ market[benchmark][start_date] = 2
    /\ Len(results.table) = NumDates
    /\ results.table[NumDates].strategy # Zero
    /\ results.table[NumDates].benchmark # Zero
    /\ results.table[NumDates].strategy # results.table[NumDates - 1].strategy

\* C10 as claimed: results is None until a run completes its computation; plot_results
\* and save_results on None raise "Results are not available" and change nothing; a run
\* that fails leaves results as it was; run never raises "Results are not available".
NotAvailable == "ValueError: Results are not available"
ResultsNoneUntilRun ==
    /\ [](last.op \in {"none", "init"} => results.isNone)
    /\ [][results' # results => last'.op = "run" /\ last'.strategy # NoStrategy]_vars
PlotSaveNeedResults ==
    [][(last'.op \in {"plot", "save"} /\ results.isNone)
          => (last'.err = NotAvailable /\ UNCHANGED <<results, long_stocks, short_stocks,
                 long_weights, short_weights, start_date, end_date, benchmark>>)]_vars
RunNeverNotAvailable == [](last.op = "run" => last.err # NotAvailable)

C10_AnyFailedRunKeepsResults ==
    /\ ResultsNoneUntilRun
    /\ PlotSaveNeedResults
    /\ [][(last'.op = "run" /\ last'.err # "none") => results' = results]_vars
    /\ RunNeverNotAvailable

\* C10 as amended: a run that fails before line 98 assigns self.results (a fetch or a
\* computation that raises) leaves results as it was; a run whose to_csv raises inside
\* save_results fails with results already holding the new table.
C10_ResultsLifecycle ==
    /\ ResultsNoneUntilRun
    /\ PlotSaveNeedResults
    /\ [][(last'.op = "run" /\ last'.err \notin {"none", "OSError"})
             => results' = results]_vars
    /\ [][(last'.op = "run" /\ last'.err = "OSError")
             => (~results'.isNone /\ last'.strategy # NoStrategy)]_vars
    /\ RunNeverNotAvailable

C10_Witness ==
    /\ pc = "ready" /\ last.op = "run" /\ last.err = "OSError"
    /\ ~results.isNone /\ Len(results.table) = NumDates
    /\ long_stocks # <<>> /\ short_stocks # <<>>

(***************************************************************************)
(* simulate.py: format_crypto_symbol                                       *)
(* A string is a sequence of one-character strings.                        *)
(***************************************************************************)
MaxSymLen == 6
SuffixMaxLen == 5

\* the characters the input is typed from
Alphabet == {"a", "A", "D", "-", "U", "S", " "}
Whitespace == {" ", "\t", "\n", "\r"}
UpperMap ==
    [a |-> "A", b |-> "B", c |-> "C", d |-> "D", e |-> "E", f |-> "F", g |-> "G",
     h |-> "H", i |-> "I", j |-> "J", k |-> "K", l |-> "L", m |-> "M", n |-> "N",
     o |-> "O", p |-> "P", q |-> "Q", r |-> "R", s |-> "S", t |-> "T", u |-> "U",
     v |-> "V", w |-> "W", x |-> "X", y |-> "Y", z |-> "Z"]

\* str.upper(), line 31
upper(str) ==
    Tabulate(LAMBDA i : IF str[i] \in DOMAIN UpperMap THEN UpperMap[str[i]] ELSE str[i],
             Len(str))

\* str.strip(), line 31
RECURSIVE lstrip(_)
lstrip(str) ==
    IF str # <<>> /\ Head(str) \in Whitespace THEN lstrip(Tail(str)) ELSE str
RECURSIVE rstrip(_)
rstrip(str) ==
    IF str # <<>> /\ str[Len(str)] \in Whitespace
    THEN rstrip(SubSeq(str, 1, Len(str) - 1)) ELSE str
strip(str) == rstrip(lstrip(str))

\* str.endswith(suffix), line 38
endswith(str, suffix) ==
    /\ Len(str) >= Len(suffix)
    /\ SubSeq(str, Len(str) - Len(suffix) + 1, Len(str)) = suffix

USD == <<"-", "U", "S", "D">>
\* crypto_mappings, lines 19-28: <<key, value>>
crypto_mappings ==
    { <<<<"B", "T", "C">>, <<"B", "T", "C">> \o USD>>,
      <<<<"B", "I", "T", "C", "O", "I", "N">>, <<"B", "T", "C">> \o USD>>,
      <<<<"E", "T", "H">>, <<"E", "T", "H">> \o USD>>,
      <<<<"E", "T", "H", "E", "R", "E", "U", "M">>, <<"E", "T", "H">> \o USD>>,
      <<<<"D", "O", "G", "E">>, <<"D", "O", "G", "E">> \o USD>>,
      <<<<"X", "R", "P">>, <<"X", "R", "P">> \o USD>>,
      <<<<"S", "O", "L">>, <<"S", "O", "L">> \o USD>>,
      <<<<"A", "D", "A">>, <<"A", "D", "A">> \o USD>> }
MappingKeys == {kv[1] : kv \in crypto_mappings}
Mapped(key) == (CHOOSE kv \in crypto_mappings : kv[1] = key)[2]

\* format_crypto_symbol with line 42's comparison written  <  instead of  <=
format_crypto_symbol_lt(str) ==
    LET norm == strip(upper(str))
    IN IF norm \in MappingKeys THEN Mapped(norm)
       ELSE IF endswith(norm, USD) THEN norm
       ELSE IF Len(norm) < SuffixMaxLen THEN norm \o USD
       ELSE norm

\* format_crypto_symbol, lines 16-45
format_crypto_symbol(str) ==
    LET norm == strip(upper(str))
    IN IF norm \in MappingKeys THEN Mapped(norm)
       ELSE IF endswith(norm, USD) THEN norm
       ELSE IF Len(norm) <= SuffixMaxLen THEN norm \o USD
       ELSE norm

\* the caller types one more character of the argument
TypeChar(c) ==
    /\ ~formatted.done
    /\ Len(symbol) < MaxSymLen
    /\ symbol' = Append(symbol, c)
    /\ UNCHANGED <<formatted, btVars, simVars, hmVars>>

\* the call format_crypto_symbol(symbol)
Format ==
    /\ ~formatted.done
    /\ formatted' = [done |-> TRUE, value |-> format_crypto_symbol(symbol)]
    /\ UNCHANGED <<symbol, btVars, simVars, hmVars>>

InitFmt == fmtIdle /\ btIdle /\ simIdle /\ hmIdle
NextFmt == (\E c \in Alphabet : TypeChar(c)) \/ Format
SpecFmt == InitFmt /\ [][NextFmt]_vars

\* the input upper-cased and trimmed
Normalized == strip(upper(symbol))
IsAlias(str) ==
    str \in {<<"B", "T", "C">>, <<"B", "I", "T", "C", "O", "I", "N">>, <<"E", "T", "H">>,
             <<"E", "T", "H", "E", "R", "E", "U", "M">>, <<"D", "O", "G", "E">>,
             <<"X", "R", "P">>, <<"S", "O", "L">>, <<"A", "D", "A">>}

\* C7: on the upper-cased, trimmed input: an alias returns its mapped form; otherwise
\* a symbol ending in -USD is returned unchanged; otherwise a symbol of length <= 5
\* gets -USD appended; otherwise it is returned unchanged.  Every non-alias symbol of
\* length 5 not ending in -USD gets the suffix and every one of length 6 does not.
C7_FormatCryptoSymbol ==
    formatted.done =>
        LET n == Normalized
            v == formatted.value
        IN /\ IsAlias(n) => v = Mapped(n)
           /\ (~IsAlias(n) /\ endswith(n, USD)) => v = n
           /\ (~IsAlias(n) /\ ~endswith(n, USD) /\ Len(n) <= 5) => v = n \o USD
           /\ (~IsAlias(n) /\ ~endswith(n, USD) /\ Len(n) > 5) => v = n
           /\ (~IsAlias(n) /\ ~endswith(n, USD) /\ Len(n) = 5) =>
                 (Len(v) = 9 /\ SubSeq(v, 1, 5) = n /\ SubSeq(v, 6, 9) = USD)
           /\ (~IsAlias(n) /\ Len(n) = 6) => v = n

C7_Witness ==
    /\ formatted.done
    /\ ~IsAlias(Normalized) /\ ~endswith(Normalized, USD)
    /\ Len(Normalized) = 5 /\ Len(symbol) = 6
    /\ symbol # Normalized
    /\ formatted.value = Normalized \o USD

(***************************************************************************)
(* simulate.py: simulate                                                   *)
(* A value of the simulation is coef * base^(e/365), written               *)
(* [coef, base, e]; a rational q is [q, 1, 0].  Python's  **  is exact in  *)
(* the cases reduced below and irrational (or complex) otherwise, where    *)
(* the power is kept symbolic.                                             *)
(***************************************************************************)
MaxPoints == 3
DaysPerYear == 365

GrowthRates == {-150, -100, -50, 0, 10}
FirstDates == {1, 100}
\* days between consecutive points of the provider's series (its index ascends)
Gaps == {1, 364, 365}
ClosePrices == {50, 100}

Exact(q) == [coef |-> q, base |-> One, e |-> 0]

RECURSIVE RPow(_, _)
RPow(x, k) == IF k = 0 THEN One ELSE RMul(x, RPow(x, k - 1))

\* line 86: annual_factor ** (day / 365)
Power(annual_factor, day) ==
    IF day = 0 \/ annual_factor = One THEN Exact(One)
    ELSE IF day > 0 /\ annual_factor = Zero THEN Exact(Zero)
    ELSE IF day > 0 /\ day % DaysPerYear = 0
    THEN Exact(RPow(annual_factor, day \div DaysPerYear))
    ELSE [coef |-> One, base |-> annual_factor, e |-> day]

\* line 89: initial_price * factor
Scale(price, factor) == [factor EXCEPT !.coef = RMul(RInt(price), factor.coef)]

\* days elapsed counted from the last date of the series instead of the first
DaysElapsedFromLast(series) ==
    Tabulate(LAMBDA i : series[i].date - series[Len(series)].date, Len(series))

\* lines 81-82: start_date = dates[0]; [(date - start_date).days for date in dates]
DaysElapsed(series) ==
    Tabulate(LAMBDA i : series[i].date - series[1].date, Len(series))

\* lines 85-86: annual_factor = 1 + growth_rate / 100 and the factor of each day
DailyFactors(rate, days) ==
    Tabulate(LAMBDA i : Power(RAdd(One, Rat(rate, 100)), days[i]), Len(days))

\* lines 78, 89: initial_price = actual_prices.iloc[0]; the simulated prices
SimulatedPrices(series, factors) ==
    Tabulate(LAMBDA i : Scale(series[1].price, factors[i]), Len(factors))

\* the provider's series grows by one trading day
ProviderPoint(first, gap, price) ==
    /\ sim.state = "idle"
    /\ Len(actual) < MaxPoints
    /\ actual' = Append(actual,
                        [date |-> IF actual = <<>> THEN first
                                  ELSE actual[Len(actual)].date + gap,
                         price |-> price])
    /\ UNCHANGED <<growth_rate, sim, btVars, fmtVars, hmVars>>

\* simulate(stock, growth_rate, ...), lines 47-126.  fetchOk: yf.download returns;
\* plotOk: the plotting and encoding of lines 91-121 succeed (or visualize is False)
Simulate(fetchOk, plotOk) ==
    /\ sim.state = "idle"
    /\ IF ~fetchOk \/ actual = <<>>
       THEN sim' = [state |-> "raised", days_elapsed |-> <<>>, simulated_prices |-> <<>>]
       ELSE LET days == DaysElapsed(actual)
                factors == DailyFactors(growth_rate, days)
            IN sim' = [state |-> IF plotOk THEN "returned" ELSE "raised",
                       days_elapsed |-> days,
                       simulated_prices |-> SimulatedPrices(actual, factors)]
    /\ UNCHANGED <<growth_rate, actual, btVars, fmtVars, hmVars>>

InitSim ==
    /\ growth_rate \in GrowthRates
    /\ actual = <<>>
    /\ sim = [state |-> "idle", days_elapsed |-> <<>>, simulated_prices |-> <<>>]
    /\ btIdle /\ fmtIdle /\ hmIdle
NextSim ==
    \/ \E first \in FirstDates, gap \in Gaps, price \in ClosePrices :
          ProviderPoint(first, gap, price)
    \/ \E fetchOk \in BOOLEAN, plotOk \in BOOLEAN : Simulate(fetchOk, plotOk)
SpecSim == InitSim /\ [][NextSim]_vars

\* C8: one simulated value per date of the actual series, in the same order; the first
\* equals the first actual price (day count 0, factor 1); every day count is
\* non-negative; with growth_rate = 0 every simulated value equals the initial price.
C8_GrowthSimulator ==
    sim.state = "returned" =>
        /\ Len(sim.simulated_prices) = Len(actual)
        /\ Len(sim.days_elapsed) = Len(actual)
        /\ sim.days_elapsed[1] = 0
        /\ sim.simulated_prices[1] = [coef |-> <<actual[1].price, 1>>, base |-> One, e |-> 0]
        /\ \A i \in 1..Len(actual) :
              /\ sim.days_elapsed[i] >= 0
              /\ sim.days_elapsed[i] = actual[i].date - actual[1].date
              /\ sim.simulated_prices[i].e \in {0, sim.days_elapsed[i]}
              /\ growth_rate = 0 =>
                    sim.simulated_prices[i] =
                        [coef |-> <<actual[1].price, 1>>, base |-> One, e |-> 0]

C8_Witness ==
    /\ sim.state = "returned" /\ growth_rate = 0
    /\ Len(actual) = MaxPoints
    /\ actual[1].price # actual[MaxPoints].price
    /\ sim.days_elapsed[MaxPoints] > DaysPerYear

(***************************************************************************)
(* heatmap.py                                                              *)
(***************************************************************************)
\* the depth at which Python refuses a further recursive call (RecursionError)
RecursionLimit == 6

\* get_sp500_data, lines 14-61: returns True having written the CSV (with rows, or
\* with none when no symbol had data), or returns False having caught its failure
DataOutcomes ==
    {[ok |-> TRUE, csv |-> "ok"], [ok |-> TRUE, csv |-> "empty"], [ok |-> FALSE, csv |-> "keep"]}
Written(file, o) == IF o.ok THEN o.csv ELSE file

\* a call of plot_sp500_returns_heatmap from the main block, line 144
Call ==
    /\ hpc = "idle"
    /\ hpc' = "try"
    /\ attempts' = 1
    /\ UNCHANGED <<csv, refreshes, btVars, fmtVars, simVars>>

\* the try body, lines 65-130.  g1, g2: what the get_sp500_data calls of lines 69
\* and 79 do when reached; plotOk: lines 83-128 draw and encode the image
TryBody(g1, g2, plotOk) ==
    /\ hpc = "try"
    /\ LET missing == csv = "missing"
           file1 == IF missing THEN Written(csv, g1) ELSE csv
           n1 == IF missing THEN 1 ELSE 0
           reread == file1 = "empty"
           n2 == n1 + (IF reread THEN 1 ELSE 0)
       IN IF missing /\ ~g1.ok
          THEN /\ hpc' = "except"
               /\ csv' = csv
               /\ refreshes' = refreshes + n1
          ELSE IF reread /\ ~g2.ok
          THEN /\ hpc' = "except"
               /\ csv' = file1
               /\ refreshes' = refreshes + n2
          ELSE /\ hpc' = IF plotOk THEN "returned" ELSE "except"
               /\ csv' = IF reread THEN Written(file1, g2) ELSE file1
               /\ refreshes' = refreshes + n2
    /\ UNCHANGED <<attempts, btVars, fmtVars, simVars>>

\* the handler, lines 132-140: refresh the data and, if that worked, call
\* plot_sp500_returns_heatmap again; otherwise sys.exit(1)
ExceptHandler(g) ==
    /\ hpc = "except"
    /\ refreshes' = refreshes + 1
    /\ csv' = Written(csv, g)
    /\ IF g.ok /\ attempts < RecursionLimit
       THEN hpc' = "try" /\ attempts' = attempts + 1
       ELSE hpc' = "exited" /\ attempts' = attempts
    /\ UNCHANGED <<btVars, fmtVars, simVars>>

InitHeatmap ==
    /\ hpc = "idle"
    /\ csv \in {"missing", "empty", "ok"}
    /\ attempts = 0
    /\ refreshes = 0
    /\ btIdle /\ fmtIdle /\ simIdle
NextHeatmap ==
    \/ Call
    \/ \E g1 \in DataOutcomes, g2 \in DataOutcomes, plotOk \in BOOLEAN :
          TryBody(g1, g2, plotOk)
    \/ \E g \in DataOutcomes : ExceptHandler(g)
SpecHeatmap == InitHeatmap /\ [][NextHeatmap]_vars

\* C9: a call makes at most two generation attempts: after a failure it refreshes the
\* data and tries once more, then returns the image or exits.
C9_RetriesAtMostOnce == attempts <= 2

====
